---- MODULE Spec2Model ----
(***************************************************************************)
(* mass-crc32c: a directory walker feeding a bounded channel of jobs to a  *)
(* fixed pool of fileHandler goroutines, each computing CRC32C per file    *)
(* and writing result lines to standard output in batches of 256.          *)
(*                                                                         *)
(* Modelled from src/mass_crc32c.go.  Paths, checksums and output lines    *)
(* are strings, file contents are sequences of bytes, a uint32 is a pair   *)
(* <<high 16 bits, low 16 bits>>.                                          *)
(***************************************************************************)
EXTENDS Integers, Sequences, FiniteSets, Bags, TLC

(***************************************************************************)
(* Bounds of the model.                                                    *)
(***************************************************************************)
\* largest -j (workerCount) tried
MaxWorkers == 2
\* largest -l (listAheadSize) tried
MaxListAhead == 2
\* how many times the environment rewrites a file during a run
MaxMods == 1

\* how many times the 8-bit batch counter of a worker wraps around
MaxWraps == 2

\* in the large directory every FailEvery-th file cannot be opened
FailEvery == 7

(***************************************************************************)
(* 32-bit arithmetic on pairs <<hi, lo>> of 16-bit halves.                 *)
(***************************************************************************)
\* bitwise exclusive or of two naturals
XorBits[a \in Nat, b \in Nat] ==
    IF a = 0 THEN b
    ELSE IF b = 0 THEN a
    ELSE (((a % 2) + (b % 2)) % 2) + 2 * XorBits[a \div 2, b \div 2]

Xor(a, b) == XorBits[a, b]

Xor32(a, b) == <<Xor(a[1], b[1]), Xor(a[2], b[2])>>
Not32(c) == <<65535 - c[1], 65535 - c[2]>>
Shr1(c) == <<c[1] \div 2, (c[2] \div 2) + (c[1] % 2) * 32768>>
Shr8(c) == <<c[1] \div 256, (c[2] \div 256) + (c[1] % 256) * 256>>
LowByte(c) == c[2] % 256
Zero32 == <<0, 0>>

\* crc32.Castagnoli = 0x82f63b78 and crc32.IEEE = 0xedb88320 (reversed forms)
Castagnoli == <<33526, 15224>>
IEEE == <<60856, 33568>>

\* one entry of crc32.MakeTable: eight shift/xor rounds on the index
RECURSIVE TableEntry(_, _, _)
TableEntry(poly, crc, k) ==
    IF k = 0 THEN crc
    ELSE TableEntry(poly,
                    IF crc[2] % 2 = 1 THEN Xor32(Shr1(crc), poly) ELSE Shr1(crc),
                    k - 1)

MakeTable(poly) == [i \in 0..255 |-> TableEntry(poly, <<0, i>>, 8)]

CastagnoliTable == MakeTable(Castagnoli)
IEEETable == MakeTable(IEEE)

\* the table a *crc32.Table value stands for; a table is named by its polynomial
TableOf(poly) ==
    IF poly = Castagnoli THEN CastagnoliTable
    ELSE IF poly = IEEE THEN IEEETable
    ELSE MakeTable(poly)

\* one round of the table-driven loop: tab[byte(crc) ^ v] ^ (crc >> 8)
UpdateByte(crc, tab, v) == Xor32(tab[Xor(LowByte(crc), v)], Shr8(crc))

Uint32 == (0..65535) \X (0..65535)

\* for _, v := range p[lo..hi] { crc = tab[byte(crc)^v] ^ (crc >> 8) }.
\* The bytes are folded in from left to right; the range is halved, and the
\* right half is a function of the value the left half leaves, only to keep
\* the evaluation shallow.
RECURSIVE UpdateLoop(_, _, _, _, _)
UpdateLoop(crc, tab, p, lo, hi) ==
    IF lo > hi THEN crc
    ELSE IF lo = hi THEN UpdateByte(crc, tab, p[lo])
    ELSE LET mid == (lo + hi) \div 2
             right[c \in Uint32] == UpdateLoop(c, tab, p, mid + 1, hi)
         IN  right[UpdateLoop(crc, tab, p, lo, mid)]

\* crc32.Update(crc, tab, p)
Update(crc, tab, p) == Not32(UpdateLoop(Not32(crc), tab, p, 1, Len(p)))

\* binary.BigEndian.PutUint32
PutUint32(c) == <<c[1] \div 256, c[1] % 256, c[2] \div 256, c[2] % 256>>

B64Alphabet ==
    << "A","B","C","D","E","F","G","H","I","J","K","L","M","N","O","P",
       "Q","R","S","T","U","V","W","X","Y","Z","a","b","c","d","e","f",
       "g","h","i","j","k","l","m","n","o","p","q","r","s","t","u","v",
       "w","x","y","z","0","1","2","3","4","5","6","7","8","9","+","/" >>
B64(n) == B64Alphabet[n + 1]

\* base64.StdEncoding.Encode / EncodeToString, padded
RECURSIVE Base64Encode(_)
Base64Encode(bs) ==
    IF Len(bs) = 0 THEN ""
    ELSE IF Len(bs) = 1 THEN
        B64(bs[1] \div 4) \o B64((bs[1] % 4) * 16) \o "=="
    ELSE IF Len(bs) = 2 THEN
        B64(bs[1] \div 4) \o B64((bs[1] % 4) * 16 + bs[2] \div 16)
            \o B64((bs[2] % 16) * 4) \o "="
    ELSE
        B64(bs[1] \div 4) \o B64((bs[1] % 4) * 16 + bs[2] \div 16)
            \o B64((bs[2] % 16) * 4 + bs[3] \div 64) \o B64(bs[3] % 64)
            \o Base64Encode(SubSeq(bs, 4, Len(bs)))

HexAlphabet ==
    << "0","1","2","3","4","5","6","7","8","9","a","b","c","d","e","f" >>

RECURSIVE HexDigits(_, _)
HexDigits(n, k) ==
    IF k = 0 THEN "" ELSE HexDigits(n \div 16, k - 1) \o HexAlphabet[(n % 16) + 1]

\* a slip: the size is formatted with %08x
Hex16_Short(n) == " " \o HexDigits(n, 8) \o " "

\* fmt.Sprintf(" %016x ", jobFileSize) for a size that fits sixteen digits
Hex16(n) == " " \o HexDigits(n, 16) \o " "

\* the checksum string CRCReader returns at EOF
EncodeChecksum(checksum) == Base64Encode(PutUint32(checksum))

\* the result line fileHandler appends for a job
ResultLine(crc, j) == crc \o Hex16(j.size) \o j.path \o "\n"

(***************************************************************************)
(* The filesystem.  An entry is a directory (with its sorted names), a     *)
(* regular file (with its bytes) or an irregular node; a path that is not  *)
(* in the domain does not exist, so Lstat and Open fail on it.             *)
(***************************************************************************)
DirEntry(names, readable) ==
    [kind |-> "dir", names |-> names, content |-> <<>>,
     canOpen |-> readable, canRead |-> TRUE]
RegEntry(content, canOpen, canRead) ==
    [kind |-> "regular", names |-> <<>>, content |-> content,
     canOpen |-> canOpen, canRead |-> canRead]
IrregularEntry ==
    [kind |-> "irregular", names |-> <<>>, content |-> <<>>,
     canOpen |-> TRUE, canRead |-> TRUE]

\* "c": a clean tree, two directories, two regular files, one symlink.
\* "e": a tree of failures: a name whose lstat fails, a file that cannot be
\*      opened, a file whose read fails, a directory that cannot be listed,
\*      and after them a file that is in order.
\* "h": one file that holds "Hello World!".
\* "k": three files; a read of "k/h" never returns (see HungFiles).
\* "x" does not exist.
\* ".": the working directory, which holds the four trees.
\* "/": the root directory, of which one regular file is seen.
SmallDisk ==
    [p \in {".", "/", "/f",
            "c", "c/a", "c/l", "c/s", "c/s/b", "e", "e/p", "e/r", "e/u", "e/v",
            "h", "h/w", "k", "k/a", "k/h", "k/z"} |->
        CASE p = "."     -> DirEntry(<<"c", "e", "h", "k">>, TRUE)
          [] p = "/"     -> DirEntry(<<"f">>, TRUE)
          [] p = "/f"    -> RegEntry(<<102>>, TRUE, TRUE)
          [] p = "c"     -> DirEntry(<<"a", "l", "s">>, TRUE)
          [] p = "c/a"   -> RegEntry(<<72>>, TRUE, TRUE)
          [] p = "c/l"   -> IrregularEntry
          [] p = "c/s"   -> DirEntry(<<"b">>, TRUE)
          [] p = "c/s/b" -> RegEntry(<<72, 101>>, TRUE, TRUE)
          [] p = "e"     -> DirEntry(<<"g", "p", "r", "u", "v">>, TRUE)
          [] p = "e/p"   -> RegEntry(<<97>>, FALSE, TRUE)
          [] p = "e/r"   -> RegEntry(<<97, 98>>, TRUE, FALSE)
          [] p = "e/u"   -> DirEntry(<<"z">>, FALSE)
          [] p = "e/v"   -> RegEntry(<<97, 98, 99>>, TRUE, TRUE)
          [] p = "h"     -> DirEntry(<<"w">>, TRUE)
          [] p = "h/w"   -> RegEntry(<<72, 101, 108, 108, 111, 32,
                                       87, 111, 114, 108, 100, 33>>, TRUE, TRUE)
          [] p = "k"     -> DirEntry(<<"a", "h", "z">>, TRUE)
          [] p = "k/a"   -> RegEntry(<<107>>, TRUE, TRUE)
          [] p = "k/h"   -> RegEntry(<<107, 104>>, TRUE, TRUE)
          [] p = "k/z"   -> RegEntry(<<122>>, TRUE, TRUE)]

\* the clean paths of the trees tried
CleanPaths == DOMAIN SmallDisk \cup {"x", "w"}

\* filepath.Clean(path), for the spellings of a path tried here: a clean path,
\* a clean path followed by one separator, and the empty path
Clean(path) ==
    IF path = "" THEN "."
    ELSE IF \E p \in CleanPaths : path = p \o "/"
    THEN CHOOSE p \in CleanPaths : path = p \o "/"
    ELSE path

\* filepath.Join(path, name): the two joined by a separator, and cleaned
Join(path, name) ==
    LET dir == Clean(path)
    IN  IF dir = "." THEN name
        ELSE IF dir = "/" THEN "/" \o name
        ELSE dir \o "/" \o name

\* the files on which file.Read blocks for ever (a dead network mount, a
\* FIFO nobody writes to)
HungFiles == {"k/h"}
Hangs(path) == path \in HungFiles

\* the command lines tried: the positional arguments.  A root is given as a
\* clean path, or as a directory followed by a separator.
ArgLists ==
    { <<>>, <<"c">>, <<"e">>, <<"x">>, <<"x", "c">>, <<"c", "c/a">>, <<"h">>,
      <<"c/">>, <<"c/a/">>, <<"/">> }

\* the working directory as the root: every tree, walked with one worker
DotArgs == << "." >>

(***************************************************************************)
(* Messages and error texts.  A nil error is the empty string.             *)
(***************************************************************************)
NoError == ""
ErrNotExist(op, path) == op \o " " \o path \o ": no such file or directory"
ErrPermission(op, path) == op \o " " \o path \o ": permission denied"
ErrNotDir(op, path) == op \o " " \o path \o ": not a directory"
ErrIO(op, path) == op \o " " \o path \o ": input/output error"
ErrSizeMismatch == "fileInfoSize != processedSize"

printErr(path, err) == "CRC error: '" \o path \o "' : " \o err \o "\n"
EnteringDirMsg(path) == "entering dir: " \o path \o "\n"
IgnoringMsg(path) == "ignoring: " \o path \o "\n"
WalkErrMsg(nodeType, path, err) ==
    nodeType \o "error: '" \o path \o "': " \o err \o "\n"
MissingPathsMsg == "error: missing paths\n"

DEFAULT_BUFFER_SIZE_KB == 1024

\* %d of a number that is not negative
RECURSIVE DecDigits(_)
DecDigits(n) ==
    IF n < 10 THEN HexAlphabet[n + 1]
    ELSE DecDigits(n \div 10) \o HexAlphabet[(n % 10) + 1]

\* the last k decimal digits of n, with leading zeros
RECURSIVE DecPadded(_, _)
DecPadded(n, k) ==
    IF k = 0 THEN "" ELSE DecPadded(n \div 10, k - 1) \o HexAlphabet[(n % 10) + 1]

\* %v of an integer under message.NewPrinter(language.English): the digits
\* in groups of three
RECURSIVE Grouped(_)
Grouped(n) ==
    IF n < 1000 THEN DecDigits(n)
    ELSE Grouped(n \div 1000) \o "," \o DecPadded(n % 1000, 3)

\* os.Args[0]
ProgramName == "mass-crc32c"

\* runtime.NumCPU() of the machine the runs are made on
numCPU == 1

\* one entry of flag.PrintDefaults() for an int flag
FlagDefault(name, usage, default) ==
    "  -" \o name \o " int\n    \t" \o usage
        \o (IF default = 0 THEN "" ELSE " (default " \o DecDigits(default) \o ")")
        \o "\n"

\* what printUsage writes: the heading, and the flags in the order of their
\* names, each with the default it was declared with
UsageMsgs ==
    { "Usage of " \o ProgramName \o ": [options] path [path ...]\n\nOptions:\n",
      FlagDefault("j", "# of parallel reads", numCPU * 4),
      FlagDefault("l", "size of list ahead queue", numCPU * 4),
      FlagDefault("p", "# of cpu used", numCPU),
      FlagDefault("s", "size of reads in kbytes", DEFAULT_BUFFER_SIZE_KB) }

\* what printFlags writes
FlagsMsg(p, j, l, s) ==
    "Flags: [p=" \o DecDigits(p) \o " j=" \o DecDigits(j) \o " l=" \o DecDigits(l)
        \o " s=" \o DecDigits(s) \o ")]\n"

\* the digits after the point of a number of thousandths, without the zeros
\* at the end
Thousandths(f) ==
    IF f = 0 THEN ""
    ELSE IF f % 100 = 0 THEN "." \o DecDigits(f \div 100)
    ELSE IF f % 10 = 0 THEN "." \o DecPadded(f \div 10, 2)
    ELSE "." \o DecPadded(f, 3)

\* time.Duration.String() of a duration of ms whole milliseconds, ms > 0
DurationString(ms) ==
    IF ms < 1000 THEN DecDigits(ms) \o "ms"
    ELSE LET h == ms \div 3600000
             m == (ms \div 60000) % 60
             sec == DecDigits((ms % 60000) \div 1000) \o Thousandths(ms % 1000) \o "s"
         IN  IF h > 0 THEN DecDigits(h) \o "h" \o DecDigits(m) \o "m" \o sec
             ELSE IF m > 0 THEN DecDigits(m) \o "m" \o sec
             ELSE sec

(***************************************************************************)
(* float64 arithmetic of the rate, line 233.  A natural below 2^90 is a    *)
(* triple of digits to the base 2^30, least significant first; a float64   *)
(* value is a record [m, e] standing for m * 2^e, m of at most 53 bits     *)
(* (54 when a rounding carried).  The magnitudes here stay far from the    *)
(* subnormal and the overflow range.                                       *)
(***************************************************************************)
LimbBase == 1073741824
BigNat == (0..(LimbBase - 1)) \X (0..(LimbBase - 1)) \X (0..(LimbBase - 1))
BigZero == <<0, 0, 0>>
BigOne == <<1, 0, 0>>

\* float64(n) of an integer below 2^31 is exact
Big(n) == <<n % LimbBase, n \div LimbBase, 0>>
Small(v) == v[1] + LimbBase * v[2]

Limb(v, i) == IF i \in 1..3 THEN v[i] ELSE 0

BigLess(a, b) ==
    \/ a[3] < b[3]
    \/ a[3] = b[3] /\ a[2] < b[2]
    \/ a[3] = b[3] /\ a[2] = b[2] /\ a[1] < b[1]

BigAdd(a, b) ==
    LET s1 == a[1] + b[1]
        s2 == a[2] + b[2] + (s1 \div LimbBase)
        s3 == a[3] + b[3] + (s2 \div LimbBase)
    IN  <<s1 % LimbBase, s2 % LimbBase, s3 % LimbBase>>

\* a - b for a >= b
BigSub(a, b) ==
    LET d1 == a[1] - b[1]
        d2 == a[2] - b[2] - (IF d1 < 0 THEN 1 ELSE 0)
        d3 == a[3] - b[3] - (IF d2 < 0 THEN 1 ELSE 0)
    IN  <<IF d1 < 0 THEN d1 + LimbBase ELSE d1,
          IF d2 < 0 THEN d2 + LimbBase ELSE d2,
          d3>>

BigShiftL(v, t) ==
    LET ls == t \div 30
        bs == t % 30
        limb(i) == (Limb(v, i - ls) % (2 ^ (30 - bs))) * (2 ^ bs)
                       + (Limb(v, i - ls - 1) \div (2 ^ (30 - bs)))
    IN  <<limb(1), limb(2), limb(3)>>

BigShiftR(v, t) ==
    LET ls == t \div 30
        bs == t % 30
        limb(i) == (Limb(v, i + ls) \div (2 ^ bs))
                       + (Limb(v, i + ls + 1) % (2 ^ bs)) * (2 ^ (30 - bs))
    IN  <<limb(1), limb(2), limb(3)>>

BigDouble(v) == BigShiftL(v, 1)

LimbBits(x) ==
    IF x = 0 THEN 0
    ELSE CHOOSE k \in 1..30 : 2 ^ (k - 1) <= x /\ (k = 30 \/ x < 2 ^ k)

BitLen(v) ==
    IF v[3] > 0 THEN 60 + LimbBits(v[3])
    ELSE IF v[2] > 0 THEN 30 + LimbBits(v[2])
    ELSE LimbBits(v[1])

\* the float64 values m * 2^e handled here: m below 2^54, and e such that
\* sums and quotients stay in the normal range
Mantissa == (0..(LimbBase - 1)) \X (0..(2 ^ 24 - 1)) \X {0}
Float64 == [m : Mantissa, e : -400..400]

\* v * 2^(-t) rounded to the nearest integer, ties to the even one; sticky
\* says that the exact value lies strictly above v
RoundShift[v \in BigNat, t \in Nat, sticky \in BOOLEAN] ==
    IF t = 0 THEN v
    ELSE IF BitLen(v) < t THEN BigZero
    ELSE LET q == BigShiftR(v, t)
             rem == BigSub(v, BigShiftL(q, t))
             half == BigShiftL(BigOne, t - 1)
             up == \/ BigLess(half, rem)
                   \/ rem = half /\ (sticky \/ q[1] % 2 = 1)
         IN  IF up THEN BigAdd(q, BigOne) ELSE q

\* the float64 nearest to v * 2^e, ties to even
FlRound[v \in BigNat, e \in Int, sticky \in BOOLEAN] ==
    IF BitLen(v) <= 53 THEN [m |-> v, e |-> e]
    ELSE [m |-> RoundShift[v, BitLen(v) - 53, sticky], e |-> e + BitLen(v) - 53]

\* k more binary digits of the quotient q * 2^(e+k) with remainder r under
\* divisor d, then the rounding, which the remainder decides
DivLoop[r \in BigNat, d \in BigNat, q \in BigNat, k \in Nat, e \in Int] ==
    IF k = 0 THEN FlRound[q, e, r # BigZero]
    ELSE IF BigLess(BigDouble(r), d)
         THEN DivLoop[BigDouble(r), d, BigDouble(q), k - 1, e]
         ELSE DivLoop[BigSub(BigDouble(r), d), d,
                      BigAdd(BigDouble(q), BigOne), k - 1, e]

\* the float64 nearest to (n / d) * 2^e for n and d of one length: the
\* leading digit, then 56 more
DivStart[n \in BigNat, d \in BigNat, e \in Int] ==
    IF BigLess(n, d) THEN DivLoop[n, d, BigZero, 56, e - 56]
    ELSE DivLoop[BigSub(n, d), d, BigOne, 56, e - 56]

\* the float64 nearest to (n / d) * 2^e, n > 0 and d > 0 below 2^58
FlQuot[n \in BigNat, d \in BigNat, e \in Int] ==
    IF BitLen(d) >= BitLen(n)
    THEN DivStart[BigShiftL(n, BitLen(d) - BitLen(n)), d,
                  e - (BitLen(d) - BitLen(n))]
    ELSE DivStart[n, BigShiftL(d, BitLen(n) - BitLen(d)),
                  e + (BitLen(n) - BitLen(d))]

\* x / y of two float64 values, y not zero
FlDiv[x \in Float64, y \in Float64] ==
    IF x.m = BigZero THEN x ELSE FlQuot[x.m, y.m, x.e - y.e]

\* x + y of two float64 values.  Brought to the lower exponent, the sum is
\* exact when it fits; otherwise y lies far below x: x is given 58 digits,
\* y is cut to that scale, and what was cut off decides a tie
FlAdd[x \in Float64, y \in Float64] ==
    IF x.m = BigZero THEN y
    ELSE IF y.m = BigZero THEN x
    ELSE IF x.e < y.e THEN FlAdd[y, x]
    ELSE IF BitLen(x.m) + (x.e - y.e) <= 88
    THEN FlRound[BigAdd(BigShiftL(x.m, x.e - y.e), y.m), y.e, FALSE]
    ELSE FlRound[BigAdd(BigShiftL(x.m, 58 - BitLen(x.m)),
                        BigShiftR(y.m, (x.e - y.e) - (58 - BitLen(x.m)))),
                 x.e - (58 - BitLen(x.m)),
                 y.m # BigShiftL(BigShiftR(y.m, (x.e - y.e) - (58 - BitLen(x.m))),
                                 (x.e - y.e) - (58 - BitLen(x.m)))]

Float(n) == [m |-> Big(n), e |-> 0]

\* time.Duration.Seconds() of ms whole milliseconds:
\* float64(sec) + float64(nsec)/1e9
Seconds(ms) ==
    FlAdd[Float(ms \div 1000), FlDiv[Float((ms % 1000) * 1000000), Float(1000000000)]]

\* (float64(totalBytesProcessed) / (1024 * 1024)) / duration.Seconds(), ms > 0
mbPerSecond(bytes, ms) ==
    FlDiv[[m |-> Big(bytes), e |-> 0 - 20], Seconds(ms)]

\* the digits that %.2f prints of a float64: the exact value times 100,
\* rounded to the nearest integer, ties to even (strconv's decimal.Round)
Hundredths[x \in Float64] ==
    LET v == BigAdd(BigAdd(BigShiftL(x.m, 6), BigShiftL(x.m, 5)), BigShiftL(x.m, 2))
    IN  IF x.e >= 0 THEN Small(BigShiftL(v, x.e))
        ELSE Small(RoundShift[v, 0 - x.e, FALSE])

\* mbPerSecond as %.2f shows it, in hundredths
RateHundredths(bytes, ms) == Hundredths[mbPerSecond(bytes, ms)]

\* %.2f of mbPerSecond
RateDigits[h \in Nat] == Grouped(h \div 100) \o "." \o DecPadded(h % 100, 2)

RateString(bytes, ms) == RateDigits[RateHundredths(bytes, ms)]

\* the durations tried for time.Since(start), in milliseconds
Durations == {2, 1500}
SanityFailedMsg(expected, calculated) ==
    "Sanity Check failed! [expected: " \o expected \o ", calculated: "
        \o calculated \o "]. Terminating.\n"
\* the report of main, for a duration of ms milliseconds
ReportMsg(ms, files, bytes) ==
    "[Duration: " \o DurationString(ms) \o "] [Files processed: " \o Grouped(files)
        \o "] [Bytes processed: " \o Grouped(bytes) \o "] ["
        \o RateString(bytes, ms) \o " MiB/second]\n"

\* sha512("Hello World!") in hex, as bytes: the const data of sanityCheck
SanityData ==
    << 56, 54, 49, 56, 52, 52, 100, 54, 55, 48, 52, 101, 56, 53, 55, 51,
       102, 101, 99, 51, 52, 100, 57, 54, 55, 101, 50, 48, 98, 99, 102, 101,
       102, 51, 100, 52, 50, 52, 99, 102, 52, 56, 98, 101, 48, 52, 101, 54,
       100, 99, 48, 56, 102, 50, 98, 100, 53, 56, 99, 55, 50, 57, 55, 52,
       51, 51, 55, 49, 48, 49, 53, 101, 97, 100, 56, 57, 49, 99, 99, 51,
       99, 102, 49, 99, 57, 100, 51, 52, 98, 52, 57, 50, 54, 52, 98, 53,
       49, 48, 55, 53, 49, 98, 49, 102, 102, 57, 101, 53, 51, 55, 57, 51,
       55, 98, 99, 52, 54, 98, 53, 100, 54, 102, 102, 52, 101, 99, 99, 56 >>
expectedCorrectChecksum == "C7DdPQ=="

\* the tables crc32.MakeTable may hand back: the right one, and a wrong one
\* of the kind the self-test exists to catch
TablePolys == {Castagnoli, IEEE}


VARIABLES
    disk,            \* the filesystem: path -> entry
    mods,            \* rewrites of files by the environment so far
    args,            \* flag.Args()
    cpuCount,        \* -p
    workerCount,     \* -j
    listAheadSize,   \* -l
    bufferSizeKB,    \* -s
    pcMain,          \* where init/main (and the walk it runs) stands
    g_crc32cTable,   \* the polynomial of the table, Zero32 before init
    chanMade,        \* g_jobQueue has been made
    g_jobQueue,      \* the channel's buffer
    chanClosed,      \* close(g_jobQueue) has run
    argIdx,          \* index of the root being walked
    walkStack,       \* paths filepath.Walk has still to visit, next first
    walkErr,         \* what filepath.Walk will return
    sending,         \* the job of a send that has not completed: <<>> or <<job>>
    workers,         \* jobId -> the locals of that fileHandler
    waitGroup,       \* the WaitGroup counter
    jobStats,        \* the slots of per-worker statistics
    stdout,          \* the writes to os.Stdout, each a sequence of lines
    stderr,          \* the bag of lines written to os.Stderr
    totals,          \* totalFilesProcessed, totalBytesProcessed
    exitCode,        \* the exit status of the process, -1 while it runs
    sent,            \* history: the jobs whose send completed, in order
    received         \* history: jobId -> the jobs it received, in order

vars == << disk, mods, args, cpuCount, workerCount, listAheadSize,
           bufferSizeKB, pcMain, g_crc32cTable,
           chanMade, g_jobQueue, chanClosed, argIdx, walkStack, walkErr,
           sending, workers, waitGroup, jobStats, stdout, stderr, totals,
           exitCode, sent, received >>

envVars == << disk, mods >>
flagVars == << args, cpuCount, workerCount, listAheadSize, bufferSizeKB >>
chanVars == << chanMade, g_jobQueue, chanClosed >>
walkVars == << argIdx, walkStack, walkErr, sending >>
histVars == << sent, received >>
outVars == << stdout, stderr, totals, exitCode >>

\* fileHandler's fileReadBufferSize
fileReadBufferSize == 1024 * bufferSizeKB

JobIds == 0..(workerCount - 1)
ZeroStat == [bytesProcessed |-> 0, filesProcessed |-> 0]

\* the locals of fileHandler at its first receive
NewWorker ==
    [pc |-> "recv", j |-> <<>>, checksum |-> Zero32, processedSize |-> 0,
     stdoutBuffer |-> <<>>, batchCounter |-> 0, localJobStat |-> ZeroStat]

\* the process is alive: neither os.Exit nor the return of main has happened
Running == pcMain \notin {"exit1", "exit2", "fatal", "panic", "done"}

Log(msg) == stderr (+) SetToBag({msg})

\* several writes to os.Stderr, each with its own text
LogAll(msgs) == stderr (+) SetToBag(msgs)

\* -p and -s are left at their defaults
InitCommon ==
    /\ cpuCount = numCPU
    /\ bufferSizeKB = DEFAULT_BUFFER_SIZE_KB
    /\ pcMain = "init"
    /\ g_crc32cTable = Zero32
    /\ chanMade = FALSE
    /\ g_jobQueue = <<>>
    /\ chanClosed = FALSE
    /\ argIdx = 0
    /\ walkStack = <<>>
    /\ walkErr = NoError
    /\ sending = <<>>
    /\ workers = <<>>
    /\ waitGroup = 0
    /\ jobStats = <<>>
    /\ stdout = <<>>
    /\ stderr = EmptyBag
    /\ totals = ZeroStat
    /\ exitCode = -1
    /\ sent = <<>>
    /\ received = <<>>

\* the numbers of files a worker is to process successfully: exact multiples
\* of 256, and one more
WrapTargets == UNION { {256 * w, 256 * w + 1} : w \in 1..MaxWraps }

\* the number of files that holds n files that can be opened, the last of them
FileCountFor(n) ==
    CHOOSE k \in n..(2 * n) : k - (k \div FailEvery) = n /\ k % FailEvery # 0

\* fixed-width names, so that the order of the names is the order of the numbers
WrapName(i) == HexDigits(i, 4)
WrapFile(i) == RegEntry(<< i % 256 >>, i % FailEvery # 0, TRUE)

WrapDisk(k) ==
    LET name == [i \in 1..k |-> Join("w", WrapName(i))]
    IN  [p \in {"w"} \cup { name[i] : i \in 1..k } |->
            IF p = "w" THEN DirEntry([i \in 1..k |-> WrapName(i)], TRUE)
            ELSE WrapFile(CHOOSE i \in 1..k : name[i] = p)]

\* the large directory with every file in order
CleanWrapDisk(k) ==
    [p \in DOMAIN WrapDisk(k) |->
        IF WrapDisk(k)[p].kind = "regular"
        THEN RegEntry(WrapDisk(k)[p].content, TRUE, TRUE)
        ELSE WrapDisk(k)[p]]

\* one worker over the large directory, on an unbuffered channel: the run in
\* which the batch counter wraps once
InitBatch ==
    /\ disk = WrapDisk(FileCountFor(256))
    /\ mods = 0
    /\ args = << "w" >>
    /\ workerCount = 1
    /\ listAheadSize = 0
    /\ InitCommon

Init ==
    \/ /\ disk = SmallDisk
       /\ mods = 0
       /\ \/ /\ args \in ArgLists
             /\ workerCount \in 1..MaxWorkers
             /\ listAheadSize \in 0..MaxListAhead
          \/ /\ args = DotArgs
             /\ workerCount = 1
             /\ listAheadSize \in 0..1
       /\ InitCommon
    \/ InitBatch

(***************************************************************************)
(* init and main up to the start of the walk.                              *)
(***************************************************************************)
\* sanityCheck's calculatedChecksumBase64 under a given table
calculatedChecksumBase64(poly) ==
    EncodeChecksum(Update(Zero32, TableOf(poly), SanityData))

\* the value sanityCheck calculates, for each table that can be made
SanityResults == [poly \in TablePolys |-> calculatedChecksumBase64(poly)]

\* a slip: the self-test accepts whatever it calculates
SanityOk_Always(expected, calculated) == TRUE

\* the comparison sanityCheck makes
SanityOk(expected, calculated) == expected = calculated

\* init(): make the table, run sanityCheck
InitFn ==
    /\ pcMain = "init"
    /\ \E poly \in TablePolys :
        /\ g_crc32cTable' = poly
        /\ IF ~SanityOk(expectedCorrectChecksum, SanityResults[poly])
           THEN /\ stderr' = Log(SanityFailedMsg(expectedCorrectChecksum,
                                                 SanityResults[poly]))
                /\ pcMain' = "exit2"
                /\ exitCode' = 2
           ELSE /\ stderr' = stderr
                /\ pcMain' = "main"
                /\ exitCode' = exitCode
    /\ UNCHANGED << envVars, flagVars, chanVars, walkVars, workers, waitGroup,
                    jobStats, stdout, totals, histVars >>

\* main from flag.Parse to the start of the first filepath.Walk: the channel,
\* the slots, the WaitGroup and the goroutines are made on the way
MainStart ==
    /\ pcMain = "main"
    /\ IF Len(args) = 0
       THEN /\ stderr' = LogAll({MissingPathsMsg} \cup UsageMsgs)
            /\ pcMain' = "exit1"
            /\ exitCode' = 1
            /\ UNCHANGED << chanVars, argIdx, walkStack, workers, waitGroup,
                            jobStats, received >>
       ELSE /\ chanMade' = TRUE
            /\ g_jobQueue' = <<>>
            /\ chanClosed' = FALSE
            /\ jobStats' = [i \in JobIds |-> ZeroStat]
            /\ waitGroup' = waitGroup + workerCount
            /\ workers' = [i \in JobIds |-> NewWorker]
            /\ received' = [i \in JobIds |-> <<>>]
            /\ argIdx' = 1
            /\ walkStack' = << args[1] >>
            /\ pcMain' = "walk"
            /\ UNCHANGED << stderr, exitCode >>
    /\ UNCHANGED << envVars, flagVars, g_crc32cTable, walkErr, sending, stdout,
                    totals, sent >>

(***************************************************************************)
(* The walk: filepath.Walk(arg, enqueueJob) for each root in turn.         *)
(***************************************************************************)
\* os.FileInfo of an entry: <<>> is a nil info
InfoOf(entry) ==
    << [isDir |-> entry.kind = "dir", isRegular |-> entry.kind = "regular",
        size |-> Len(entry.content)] >>

\* enqueueJob(path, info, err) up to its send: what it returns, what it
\* writes to stderr ("" for nothing) and the job it is about to send
enqueueJob(path, info, err) ==
    IF err # NoError THEN
        [ret |-> NoError,
         log |-> WalkErrMsg(IF info # <<>> /\ info[1].isDir THEN "dir: " ELSE "file: ",
                            path, err),
         job |-> <<>>]
    ELSE IF info[1].isDir THEN
        [ret |-> NoError, log |-> EnteringDirMsg(path), job |-> <<>>]
    ELSE IF ~info[1].isRegular THEN
        [ret |-> NoError, log |-> IgnoringMsg(path), job |-> <<>>]
    ELSE
        [ret |-> NoError, log |-> "",
         job |-> << [path |-> path, size |-> info[1].size] >>]

\* the names of a directory joined to its path, in the order Walk visits them
Children(path, names) == [i \in 1..Len(names) |-> Join(path, names[i])]

\* one visit of filepath.Walk: lstat the next path, call the callback, and
\* push the children of a directory that could be listed
VisitResult(path) ==
    IF Clean(path) \notin DOMAIN disk THEN
        [call |-> enqueueJob(path, <<>>, ErrNotExist("lstat", path)),
         below |-> <<>>]
    ELSE IF Clean(path) # path /\ disk[Clean(path)].kind # "dir" THEN
        \* a separator after the name of something that is not a directory
        [call |-> enqueueJob(path, <<>>, ErrNotDir("lstat", path)),
         below |-> <<>>]
    ELSE LET entry == disk[Clean(path)]
             info == InfoOf(entry)
         IN  IF entry.kind # "dir" THEN
                 [call |-> enqueueJob(path, info, NoError), below |-> <<>>]
             ELSE IF ~entry.canOpen THEN
                 [call |-> enqueueJob(path, info, ErrPermission("open", path)),
                  below |-> <<>>]
             ELSE
                 [call |-> enqueueJob(path, info, NoError),
                  below |-> Children(path, entry.names)]

\* Walk visits the next path and calls enqueueJob on it; an error returned by
\* the callback ends the walk
Visit ==
    /\ pcMain = "walk"
    /\ walkStack # <<>>
    /\ LET r == VisitResult(Head(walkStack))
       IN  /\ stderr' = IF r.call.log # "" THEN Log(r.call.log) ELSE stderr
           /\ IF r.call.ret # NoError
              THEN /\ walkErr' = r.call.ret
                   /\ walkStack' = <<>>
                   /\ UNCHANGED << sending, pcMain >>
              ELSE /\ walkErr' = walkErr
                   /\ walkStack' = r.below \o Tail(walkStack)
                   /\ sending' = r.call.job
                   /\ pcMain' = IF r.call.job # <<>> THEN "send" ELSE "walk"
    /\ UNCHANGED << envVars, flagVars, g_crc32cTable, chanVars, argIdx, workers,
                    waitGroup, jobStats, stdout, totals, exitCode, histVars >>

\* a slip: the channel is made without its bound
HasRoom_Always(buf, cap) == TRUE

\* a slip: one job more than the capacity is let in
HasRoom_OneMore(buf, cap) == Len(buf) <= cap

\* whether the channel's buffer has room for a send
HasRoom(buf, cap) == Len(buf) < cap

\* g_jobQueue <- job completes into the buffer; on a closed channel it panics
SendBuffered ==
    /\ pcMain = "send"
    /\ IF chanClosed
       THEN /\ pcMain' = "panic"
            /\ exitCode' = 2
            /\ UNCHANGED << g_jobQueue, sent, sending >>
       ELSE /\ HasRoom(g_jobQueue, listAheadSize)
            /\ g_jobQueue' = Append(g_jobQueue, sending[1])
            /\ sent' = Append(sent, sending[1])
            /\ sending' = <<>>
            /\ pcMain' = "walk"
            /\ exitCode' = exitCode
    /\ UNCHANGED << envVars, flagVars, g_crc32cTable, chanMade, chanClosed,
                    argIdx, walkStack, walkErr, workers, waitGroup, jobStats,
                    stdout, stderr, totals, received >>

\* g_jobQueue <- job on an unbuffered channel: the job is handed to a worker
\* that waits in its receive.  (With a buffer, a send to a waiting receiver is
\* the buffered send followed at once by the receive, which SendBuffered and
\* Receive give.)
SendDirect(w) ==
    /\ pcMain = "send"
    /\ ~chanClosed
    /\ listAheadSize = 0
    /\ workers[w].pc = "recv"
    /\ workers' = [workers EXCEPT ![w].pc = "open", ![w].j = sending]
    /\ sent' = Append(sent, sending[1])
    /\ received' = [received EXCEPT ![w] = Append(@, sending[1])]
    /\ sending' = <<>>
    /\ pcMain' = "walk"
    /\ UNCHANGED << envVars, flagVars, g_crc32cTable, chanVars, argIdx,
                    walkStack, walkErr, waitGroup, jobStats, outVars >>

\* a slip: the loop over the roots ends after the first root
MoreRoots_None(i) == FALSE

\* whether the loop over flag.Args() has a root at index i
MoreRoots(i) == i <= Len(args)

\* filepath.Walk returns: log.Fatal on an error, otherwise the walk of the
\* next root starts or the loop over the roots ends
WalkReturn ==
    /\ pcMain = "walk"
    /\ walkStack = <<>>
    /\ IF walkErr # NoError
       THEN /\ stderr' = Log(walkErr \o "\n")
            /\ pcMain' = "fatal"
            /\ exitCode' = 1
            /\ UNCHANGED << argIdx, walkStack >>
       ELSE /\ UNCHANGED << stderr, exitCode >>
            /\ argIdx' = argIdx + 1
            /\ IF MoreRoots(argIdx + 1)
               THEN /\ walkStack' = << args[argIdx + 1] >>
                    /\ pcMain' = "walk"
               ELSE /\ walkStack' = <<>>
                    /\ pcMain' = "close"
    /\ UNCHANGED << envVars, flagVars, g_crc32cTable, chanVars, walkErr,
                    sending, workers, waitGroup, jobStats, stdout, totals,
                    histVars >>

\* a slip: the close is left out
Close_Forgotten ==
    /\ pcMain = "close"
    /\ pcMain' = "wait"
    /\ UNCHANGED << envVars, flagVars, g_crc32cTable, chanVars, walkVars,
                    workers, waitGroup, jobStats, outVars, histVars >>

\* close(g_jobQueue), after the loop over the roots; closing twice panics
Close ==
    /\ pcMain = "close"
    /\ IF chanClosed
       THEN /\ pcMain' = "panic"
            /\ exitCode' = 2
            /\ UNCHANGED chanClosed
       ELSE /\ chanClosed' = TRUE
            /\ pcMain' = "wait"
            /\ exitCode' = exitCode
    /\ UNCHANGED << envVars, flagVars, g_crc32cTable, chanMade, g_jobQueue,
                    walkVars, workers, waitGroup, jobStats, stdout, stderr,
                    totals, histVars >>

\* a slip: main does not wait for the workers
Wait_NoBarrier ==
    /\ pcMain = "wait"
    /\ pcMain' = "sum"
    /\ UNCHANGED << envVars, flagVars, g_crc32cTable, chanVars, walkVars,
                    workers, waitGroup, jobStats, outVars, histVars >>

\* waitGroup.Wait() returns
Wait ==
    /\ pcMain = "wait"
    /\ waitGroup = 0
    /\ pcMain' = "sum"
    /\ UNCHANGED << envVars, flagVars, g_crc32cTable, chanVars, walkVars,
                    workers, waitGroup, jobStats, outVars, histVars >>

RECURSIVE SumStats(_, _)
SumStats(stats, n) ==
    IF n = 0 THEN ZeroStat
    ELSE LET rest == SumStats(stats, n - 1)
         IN  [bytesProcessed |-> rest.bytesProcessed + stats[n - 1].bytesProcessed,
              filesProcessed |-> rest.filesProcessed + stats[n - 1].filesProcessed]

\* the totals over jobStats, the report, and the return of main
Aggregate ==
    /\ pcMain = "sum"
    /\ totals' = SumStats(jobStats, workerCount)
    /\ \E ms \in Durations :
          stderr' = LogAll({ FlagsMsg(cpuCount, workerCount, listAheadSize,
                                      bufferSizeKB),
                             ReportMsg(ms, totals'.filesProcessed,
                                       totals'.bytesProcessed) })
    /\ pcMain' = "done"
    /\ exitCode' = 0
    /\ UNCHANGED << envVars, flagVars, g_crc32cTable, chanVars, walkVars,
                    workers, waitGroup, jobStats, stdout, histVars >>

(***************************************************************************)
(* fileHandler(jobId, ...), one goroutine per jobId.                       *)
(***************************************************************************)
\* a slip: the receive reads the first job and leaves it in the buffer
Dequeue_Peek(buf) == buf

\* the channel's buffer after a receive has taken its first job
Dequeue(buf) == Tail(buf)

\* a slip: one lock is held around the whole loop body, so a worker takes a
\* job only while no other worker is at work on one
Receive_OneAtATime(w) ==
    /\ Running
    /\ chanMade
    /\ workers[w].pc = "recv"
    /\ g_jobQueue # <<>>
    /\ \A v \in DOMAIN workers \ {w} : workers[v].pc \notin {"open", "read"}
    /\ workers' = [workers EXCEPT ![w].pc = "open", ![w].j = << Head(g_jobQueue) >>]
    /\ received' = [received EXCEPT ![w] = Append(@, Head(g_jobQueue))]
    /\ g_jobQueue' = Tail(g_jobQueue)
    /\ UNCHANGED << envVars, flagVars, pcMain, g_crc32cTable, chanMade,
                    chanClosed, walkVars, waitGroup, jobStats, outVars, sent >>

\* for j := range g_jobQueue takes the next job from the buffer
Receive(w) ==
    /\ Running
    /\ chanMade
    /\ workers[w].pc = "recv"
    /\ g_jobQueue # <<>>
    /\ workers' = [workers EXCEPT ![w].pc = "open", ![w].j = << Head(g_jobQueue) >>]
    /\ received' = [received EXCEPT ![w] = Append(@, Head(g_jobQueue))]
    /\ g_jobQueue' = Dequeue(g_jobQueue)
    /\ UNCHANGED << envVars, flagVars, pcMain, g_crc32cTable, chanMade,
                    chanClosed, walkVars, waitGroup, jobStats, outVars, sent >>

\* the error of os.Open(path)
OpenError(path) ==
    IF path \notin DOMAIN disk THEN ErrNotExist("open", path)
    ELSE IF ~disk[path].canOpen THEN ErrPermission("open", path)
    ELSE NoError

\* a slip: a failed item ends the worker's loop
Skipped_Quit(wk) == [wk EXCEPT !.pc = "store", !.j = <<>>]

\* the worker's locals when an item has failed: printErr, continue
Skipped(wk) == [wk EXCEPT !.pc = "recv", !.j = <<>>]

\* CRCReader opens the file; on an error CRCReader and fileHandler both log
Open(w) ==
    /\ Running
    /\ workers[w].pc = "open"
    /\ LET wk == workers[w]
           path == wk.j[1].path
           err == OpenError(path)
       IN  IF err # NoError
           THEN /\ stderr' = stderr (+) SetToBag({printErr(path, err)})
                                    (+) SetToBag({printErr(path, err)})
                /\ workers' = [workers EXCEPT ![w] = Skipped(wk)]
           ELSE /\ stderr' = stderr
                /\ workers' = [workers EXCEPT ![w] =
                                  [wk EXCEPT !.pc = "read", !.checksum = Zero32,
                                             !.processedSize = 0]]
    /\ UNCHANGED << envVars, flagVars, pcMain, g_crc32cTable, chanVars,
                    walkVars, waitGroup, jobStats, stdout, totals, exitCode,
                    histVars >>

Min(a, b) == IF a < b THEN a ELSE b

\* a slip: the counter is an int and never wraps
IncBatchCounter_Wide(b) == b + 1

\* batchCounter++ on a uint8
IncBatchCounter(b) == (b + 1) % 256

\* a slip: the size check is left out
SizeMatches_Always(size, processedSize) == TRUE

\* the size check of CRCReader at EOF
SizeMatches(size, processedSize) == size = processedSize

\* fileHandler after a successful CRCReader: counter, bytes, the line
Appended(wk, crc) ==
    [wk EXCEPT !.pc = "recv", !.j = <<>>,
               !.batchCounter = IncBatchCounter(@),
               !.localJobStat.bytesProcessed = @ + wk.j[1].size,
               !.stdoutBuffer = Append(@, ResultLine(crc, wk.j[1]))]

\* a slip: the written lines stay in the buffer
ResetBuffer_Keep(buf) == buf

\* the buffer after os.Stdout.Write in the loop: stdoutBuffer.Reset()
ResetBuffer(buf) == <<>>

\* a slip: the wrap counts math.MaxUint8 files
Flushed_255(wk) ==
    [wk EXCEPT !.stdoutBuffer = ResetBuffer(@),
               !.localJobStat.filesProcessed = @ + 255]

\* fileHandler after the write on wrap-around
Flushed(wk) ==
    [wk EXCEPT !.stdoutBuffer = ResetBuffer(@),
               !.localJobStat.filesProcessed = @ + 255 + 1]

\* one file.Read of CRCReader, and at EOF the rest of the loop body
Read(w) ==
    /\ Running
    /\ workers[w].pc = "read"
    /\ ~Hangs(workers[w].j[1].path)
    /\ LET wk == workers[w]
           j == wk.j[1]
           entry == disk[j.path]
           left == Len(entry.content) - wk.processedSize
           n == Min(fileReadBufferSize, left)
       IN  IF ~entry.canRead THEN
               \* default: return "ERROR!", err
               /\ stderr' = Log(printErr(j.path, ErrIO("read", j.path)))
               /\ workers' = [workers EXCEPT ![w] = Skipped(wk)]
               /\ stdout' = stdout
           ELSE IF left > 0 THEN
               \* case nil
               /\ workers' = [workers EXCEPT ![w] =
                     [wk EXCEPT !.processedSize = @ + n,
                                !.checksum = Update(@, TableOf(g_crc32cTable),
                                    SubSeq(entry.content, wk.processedSize + 1,
                                           wk.processedSize + n))]]
               /\ UNCHANGED << stdout, stderr >>
           ELSE IF ~SizeMatches(j.size, wk.processedSize) THEN
               \* case io.EOF, sizes differ
               /\ stderr' = Log(printErr(j.path, ErrSizeMismatch))
               /\ workers' = [workers EXCEPT ![w] = Skipped(wk)]
               /\ stdout' = stdout
           ELSE
               \* case io.EOF, then lines 99-105: on wrap-around the worker
               \* stands before its os.Stdout.Write
               LET after == Appended(wk, EncodeChecksum(wk.checksum))
               IN  /\ stderr' = stderr
                   /\ stdout' = stdout
                   /\ workers' = [workers EXCEPT ![w] =
                         IF after.batchCounter = 0
                         THEN [after EXCEPT !.pc = "flush"]
                         ELSE after]
    /\ UNCHANGED << envVars, flagVars, pcMain, g_crc32cTable, chanVars,
                    walkVars, waitGroup, jobStats, totals, exitCode, histVars >>

\* the write on wrap-around, lines 106-108: a system call of its own, so
\* other goroutines and processes run between the EOF and the write
Flush(w) ==
    /\ Running
    /\ workers[w].pc = "flush"
    /\ stdout' = Append(stdout, workers[w].stdoutBuffer)
    /\ workers' = [workers EXCEPT ![w] = [Flushed(workers[w]) EXCEPT !.pc = "recv"]]
    /\ UNCHANGED << envVars, flagVars, pcMain, g_crc32cTable, chanVars,
                    walkVars, waitGroup, jobStats, stderr, totals, exitCode,
                    histVars >>

\* whether the range loop over the channel ends
ChannelDone(closed, buf) == closed /\ buf = <<>>

\* a slip in the guard of the last write: a single buffered line is not written
FinalFlushNeeded_OffByOne(batchCounter) == batchCounter > 1

\* whether the write after the loop is made
FinalFlushNeeded(batchCounter) == batchCounter > 0

\* the range loop ends; the write after the loop
LoopExit(w) ==
    /\ Running
    /\ workers[w].pc = "recv"
    /\ ChannelDone(chanClosed, g_jobQueue)
    /\ LET wk == workers[w]
       IN  IF FinalFlushNeeded(wk.batchCounter)
           THEN /\ stdout' = Append(stdout, wk.stdoutBuffer)
                /\ workers' = [workers EXCEPT ![w] =
                      [wk EXCEPT !.pc = "store",
                                 !.localJobStat.filesProcessed = @ + wk.batchCounter]]
           ELSE /\ stdout' = stdout
                /\ workers' = [workers EXCEPT ![w].pc = "store"]
    /\ UNCHANGED << envVars, flagVars, pcMain, g_crc32cTable, chanVars,
                    walkVars, waitGroup, jobStats, stderr, totals, exitCode,
                    histVars >>

\* jobStats[jobId] = localJobStat, the return, and the deferred Done()
Store(w) ==
    /\ Running
    /\ workers[w].pc = "store"
    /\ jobStats' = [jobStats EXCEPT ![w] = workers[w].localJobStat]
    /\ waitGroup' = waitGroup - 1
    /\ workers' = [workers EXCEPT ![w].pc = "done"]
    /\ UNCHANGED << envVars, flagVars, pcMain, g_crc32cTable, chanVars,
                    walkVars, outVars, histVars >>

(***************************************************************************)
(* The environment: another process rewrites a regular file of the small   *)
(* trees during the run.  The run looks at a file when the walk lstats it  *)
(* and when a worker reads it, so a rewrite at any moment reaches the run  *)
(* exactly as the same rewrite made just before the next of these: it is   *)
(* taken when the walk is about to lstat the file or a worker is reading   *)
(* it.  A file may be listed, and so looked at, more than once.  Files are *)
(* rewritten in the runs of one or two workers over a channel of capacity  *)
(* up to two.                                                              *)
(***************************************************************************)
\* the file the walk lstats next
AboutToLstat ==
    IF pcMain = "walk" /\ walkStack # <<>> THEN {Clean(Head(walkStack))} ELSE {}

\* the paths of the files some worker has open
BeingRead ==
    { workers[w].j[1].path : w \in { v \in DOMAIN workers : workers[v].pc = "read" } }

CanModify(p) ==
    /\ Running
    /\ mods < MaxMods
    /\ workerCount <= 2
    /\ listAheadSize <= 2
    /\ p \in DOMAIN SmallDisk
    /\ disk[p].kind = "regular"
    /\ p \in AboutToLstat \cup BeingRead

\* a byte ("!") is appended to the file
Grow(p) ==
    /\ CanModify(p)
    /\ disk' = [disk EXCEPT ![p].content = Append(@, 33)]
    /\ mods' = mods + 1
    /\ UNCHANGED << flagVars, pcMain, g_crc32cTable, chanVars, walkVars,
                    workers, waitGroup, jobStats, outVars, histVars >>

\* the file is truncated by a byte
Shrink(p) ==
    /\ CanModify(p)
    /\ disk[p].content # <<>>
    /\ disk' = [disk EXCEPT ![p].content = SubSeq(@, 1, Len(@) - 1)]
    /\ mods' = mods + 1
    /\ UNCHANGED << flagVars, pcMain, g_crc32cTable, chanVars, walkVars,
                    workers, waitGroup, jobStats, outVars, histVars >>

(***************************************************************************)
(* Specifications.                                                         *)
(***************************************************************************)
\* a step of init/main, the walk included
MainStep ==
    \/ InitFn
    \/ MainStart
    \/ Visit
    \/ SendBuffered
    \/ \E w \in DOMAIN workers : SendDirect(w)
    \/ WalkReturn
    \/ Close
    \/ Wait
    \/ Aggregate

\* a step of the goroutine of fileHandler(w, ...)
WorkerStep(w) ==
    /\ w \in DOMAIN workers
    /\ \/ Receive(w)
       \/ Open(w)
       \/ Read(w)
       \/ Flush(w)
       \/ LoopExit(w)
       \/ Store(w)

Program ==
    \/ InitFn
    \/ MainStart
    \/ Visit
    \/ SendBuffered
    \/ \E w \in DOMAIN workers : SendDirect(w)
    \/ WalkReturn
    \/ Close
    \/ Wait
    \/ Aggregate
    \/ \E w \in DOMAIN workers : Receive(w)
    \/ \E w \in DOMAIN workers : Open(w)
    \/ \E w \in DOMAIN workers : Read(w)
    \/ \E w \in DOMAIN workers : Flush(w)
    \/ \E w \in DOMAIN workers : LoopExit(w)
    \/ \E w \in DOMAIN workers : Store(w)

Environment ==
    \/ \E p \in DOMAIN disk : Grow(p)
    \/ \E p \in DOMAIN disk : Shrink(p)

Next == Program \/ Environment

\* the whole program with the environment, every command line of Init
Spec == Init /\ [][Next]_vars

\* the Go scheduler runs every goroutine that can run
Fairness ==
    /\ WF_vars(MainStep)
    /\ \A w \in 0..(MaxWorkers - 1) : WF_vars(WorkerStep(w))

\* a clean tree, nothing rewritten, goroutines scheduled fairly
CleanArgLists == { <<"c">>, <<"c/s">>, <<"c/a">>, <<"c", "c/a">>, <<"c/">> }

InitClean ==
    \/ /\ disk = SmallDisk
       /\ mods = 0
       /\ args \in CleanArgLists
       /\ workerCount \in 1..MaxWorkers
       /\ listAheadSize \in 0..MaxListAhead
       /\ InitCommon
    \/ /\ disk = CleanWrapDisk(256)
       /\ mods = 0
       /\ args = << "w" >>
       /\ workerCount = 1
       /\ listAheadSize = 0
       /\ InitCommon

CleanSpec == InitClean /\ [][Program]_vars /\ Fairness

(***************************************************************************)
(* One worker over one large flat directory "w": enough files for the      *)
(* batch counter to wrap, some of which cannot be opened.                  *)
(***************************************************************************)
InitWrap ==
    /\ disk \in { WrapDisk(FileCountFor(n)) : n \in WrapTargets }
    /\ mods = 0
    /\ args = << "w" >>
    /\ workerCount = 1
    /\ listAheadSize \in 0..1
    /\ InitCommon

WrapSpec == InitWrap /\ [][Program]_vars

\* the small trees, which the environment rewrites, and the large directory,
\* which it leaves alone
InitAll == Init \/ InitWrap

AllSpec == InitAll /\ [][Next]_vars

\* every command line, and the tree with the hung file; nothing rewritten,
\* goroutines scheduled fairly
HungArgs == << "k" >>

InitFair ==
    \/ /\ disk = SmallDisk
       /\ mods = 0
       /\ \/ /\ args \in ArgLists \cup {HungArgs}
             /\ workerCount \in 1..MaxWorkers
             /\ listAheadSize \in 0..MaxListAhead
          \/ /\ args = DotArgs
             /\ workerCount = 1
             /\ listAheadSize \in 0..1
       /\ InitCommon
    \/ InitBatch

FairSpec == InitFair /\ [][Program]_vars /\ Fairness

(***************************************************************************)
(* What the streams hold, and what a tree holds.                           *)
(***************************************************************************)
\* the regular files of the tree at a path that the walk lists
RECURSIVE ListedFiles(_)
ListedFiles(path) ==
    IF path \notin DOMAIN disk THEN {}
    ELSE IF disk[path].kind = "regular" THEN {path}
    ELSE IF disk[path].kind = "dir" /\ disk[path].canOpen THEN
        UNION { ListedFiles(Join(path, disk[path].names[i])) :
                    i \in DOMAIN disk[path].names }
    ELSE {}

\* the tree a root names: none ("") when the root is the name of something
\* that is not a directory, followed by a separator
TreeOf(root) ==
    IF /\ Clean(root) # root
       /\ Clean(root) \in DOMAIN disk
       /\ disk[Clean(root)].kind # "dir"
    THEN ""
    ELSE Clean(root)

\* the regular files under the roots of the command line
Listed == UNION { ListedFiles(TreeOf(args[i])) : i \in DOMAIN args }

RECURSIVE Flatten(_)
Flatten(writes) ==
    IF writes = <<>> THEN <<>> ELSE Head(writes) \o Flatten(Tail(writes))

\* the number of result lines written to standard output
LineCount(writes) == Len(Flatten(writes))

RECURSIVE SumSeq(_)
SumSeq(ns) == IF ns = <<>> THEN 0 ELSE Head(ns) + SumSeq(Tail(ns))

RECURSIVE SetToSeq(_)
SetToSeq(S) ==
    IF S = {} THEN <<>>
    ELSE LET x == CHOOSE y \in S : TRUE IN << x >> \o SetToSeq(S \ {x})

Paths == SetToSeq(DOMAIN disk)

\* the paths as the walk spells them: a root is spelled as it was given
Spellings == SetToSeq(DOMAIN disk \cup { args[i] : i \in DOMAIN args })

\* the number of "entering dir" notices on the diagnostic stream
EnteringCount ==
    SumSeq([i \in DOMAIN Spellings |->
               CopiesIn(EnteringDirMsg(Spellings[i]), stderr)])


\* the regular files and the directories of the tree at a path
RECURSIVE FilesUnder(_)
FilesUnder(path) ==
    IF path \notin DOMAIN disk THEN 0
    ELSE IF disk[path].kind = "regular" THEN 1
    ELSE IF disk[path].kind = "dir" THEN
        SumSeq([i \in DOMAIN disk[path].names |->
                    FilesUnder(Join(path, disk[path].names[i]))])
    ELSE 0

RECURSIVE DirsUnder(_)
DirsUnder(path) ==
    IF path \notin DOMAIN disk THEN 0
    ELSE IF disk[path].kind = "dir" THEN
        1 + SumSeq([i \in DOMAIN disk[path].names |->
                        DirsUnder(Join(path, disk[path].names[i]))])
    ELSE 0

\* N and M of the trees named on the command line
ExpectedFiles == SumSeq([i \in DOMAIN args |-> FilesUnder(TreeOf(args[i]))])
ExpectedDirs == SumSeq([i \in DOMAIN args |-> DirsUnder(TreeOf(args[i]))])

(***************************************************************************)
(* C1.  Over clean trees (no I/O error, no file rewritten), for every      *)
(* worker count and queue depth tried, a run that has started its walk     *)
(* ends with exactly N result lines on standard output, N the number of    *)
(* regular files, and exactly M "entering dir" notices on the diagnostic   *)
(* stream, M the number of directories.                                    *)
(***************************************************************************)
C1_EveryFileOneLine ==
    (pcMain = "walk") ~>
        (/\ pcMain = "done"
         /\ LineCount(stdout) = ExpectedFiles
         /\ EnteringCount = ExpectedDirs)

\* a finished run of two workers over an unbuffered channel: three files
\* (one of them named twice), two directories
C1_Witness ==
    /\ pcMain = "done"
    /\ workerCount = 2
    /\ listAheadSize = 0
    /\ ExpectedFiles = 3
    /\ LineCount(stdout) = 3
    /\ ExpectedDirs = 2
    /\ EnteringCount = 2

(***************************************************************************)
(* Counting jobs through the channel.                                      *)
(***************************************************************************)
\* how many times job j stands in the sequence s
CountIn(j, s) == Cardinality({ i \in DOMAIN s : s[i] = j })

\* how many times job j has been received, over all workers
RECURSIVE ReceivedCount(_, _)
ReceivedCount(j, n) ==
    IF n = 0 \/ received = <<>> THEN 0
    ELSE CountIn(j, received[n - 1]) + ReceivedCount(j, n - 1)

\* every job the run has seen so far
JobsSeen ==
    { sent[i] : i \in DOMAIN sent } \cup { g_jobQueue[i] : i \in DOMAIN g_jobQueue }
        \cup UNION { { received[w][i] : i \in DOMAIN received[w] } : w \in DOMAIN received }

\* every worker is past its receive loop
AllWorkersLeft ==
    /\ workers # <<>>
    /\ \A w \in DOMAIN workers : workers[w].pc \in {"store", "done"}

\* the result line of a file that is read as it was listed
LineOf(path) ==
    ResultLine(EncodeChecksum(Update(Zero32, CastagnoliTable, SmallDisk[path].content)),
               [path |-> path, size |-> Len(SmallDisk[path].content)])

(***************************************************************************)
(* C2.  Every job whose send completed is, at every moment, either in the  *)
(* channel or received by exactly one worker exactly once: for every job   *)
(* the number of completed sends equals the number of copies in the        *)
(* channel plus the number of receives over all workers, so two sends of   *)
(* the same path are two receives.  When every worker has left its loop    *)
(* the channel is empty and no send is pending.                            *)
(***************************************************************************)
C2_ReceivedExactlyOnce ==
    /\ \A j \in JobsSeen :
          CountIn(j, sent) = CountIn(j, g_jobQueue) + ReceivedCount(j, workerCount)
    /\ AllWorkersLeft => (g_jobQueue = <<>> /\ sending = <<>>)

\* the root "c" and the file "c/a" inside it were both named: the job for
\* "c/a" was sent twice, each of two workers received it once, and the
\* finished run wrote its line twice
C2_Witness ==
    /\ pcMain = "done"
    /\ workerCount = 2
    /\ LET j == [path |-> "c/a", size |-> 1]
       IN  /\ CountIn(j, sent) = 2
           /\ CountIn(j, received[0]) = 1
           /\ CountIn(j, received[1]) = 1
           /\ CountIn(LineOf("c/a"), Flatten(stdout)) = 2

(***************************************************************************)
(* C3 (as amended).  The channel never holds more than L jobs.  A send     *)
(* completes either into the buffer while it holds fewer than L jobs, or,  *)
(* when L = 0, by handing the job to a worker that waits in its receive;   *)
(* otherwise the walker stays in its send.  A worker takes a job either    *)
(* from the head of a non-empty buffer or by such a hand-over; a worker on *)
(* an empty channel that is not closed, with no send pending, stays in its *)
(* receive.                                                                *)
(***************************************************************************)
\* the send completes by handing the job to worker w
Handoff(w) ==
    /\ listAheadSize = 0
    /\ pcMain = "send"
    /\ workers[w].pc = "recv"
    /\ sent' = Append(sent, sending[1])
    /\ received' = [received EXCEPT ![w] = Append(@, sending[1])]
    /\ UNCHANGED g_jobQueue

\* worker w received a job in this step
Took(w) ==
    /\ w \in DOMAIN received
    /\ received' # <<>>
    /\ received'[w] # received[w]

PushRule ==
    (sent' # sent) =>
        \/ /\ Len(g_jobQueue) < listAheadSize
           /\ g_jobQueue' = Append(g_jobQueue, sending[1])
           /\ sent' = Append(sent, sending[1])
        \/ \E w \in DOMAIN workers : Handoff(w)

WalkerSuspended ==
    (/\ pcMain = "send"
     /\ Len(g_jobQueue) >= listAheadSize
     /\ ~(listAheadSize = 0 /\ \E w \in DOMAIN workers : workers[w].pc = "recv"))
        => (pcMain' = "send" /\ sent' = sent /\ sending' = sending)

ReceiveRule ==
    \A w \in DOMAIN workers :
        Took(w) =>
            \/ /\ g_jobQueue # <<>>
               /\ received'[w] = Append(received[w], Head(g_jobQueue))
               /\ g_jobQueue' = Tail(g_jobQueue)
            \/ Handoff(w)

WorkerSuspended ==
    \A w \in DOMAIN workers :
        (/\ workers[w].pc = "recv"
         /\ g_jobQueue = <<>>
         /\ ~chanClosed
         /\ pcMain # "send")
            => (workers' # <<>> /\ workers'[w].pc = "recv")

C3_BoundedQueue ==
    /\ [](Len(g_jobQueue) <= listAheadSize)
    /\ [][PushRule /\ WalkerSuspended /\ ReceiveRule /\ WorkerSuspended]_vars

\* the buffer is full, the walker stands in its send, and a worker is busy
C3_Witness ==
    /\ listAheadSize = 1
    /\ Len(g_jobQueue) = 1
    /\ pcMain = "send"
    /\ \E w \in DOMAIN workers : workers[w].pc = "read"

\* C3 as stated: a send completes only while the channel holds fewer than L
\* jobs, and a receive only while it is non-empty
C3_Original ==
    [][/\ (sent' # sent) => Len(g_jobQueue) < listAheadSize
       /\ \A w \in DOMAIN workers : Took(w) => g_jobQueue # <<>>]_vars

(***************************************************************************)
(* C4.  When a single worker has left its loop, the concatenation of its   *)
(* writes to standard output is exactly the result lines of the jobs it    *)
(* received and processed without error, in the order it received them,    *)
(* each once, and its count of files processed is their number.  The runs  *)
(* checked make the worker process 256, 257, ... files (exact multiples of *)
(* 256 and one more), with files that cannot be opened in between.         *)
(***************************************************************************)
\* the job's file can be opened and read
Succeeds(j) == disk[j.path].canOpen /\ disk[j.path].canRead

\* the result line of a job whose file is read as it is on the disk
ExpectedLine(j) ==
    ResultLine(EncodeChecksum(Update(Zero32, TableOf(g_crc32cTable),
                                     disk[j.path].content)), j)

C4_NoLineLostOrDuplicated ==
    \A w \in DOMAIN workers :
        (workerCount = 1 /\ workers[w].pc \in {"store", "done"}) =>
            LET ok == SelectSeq(received[w], Succeeds)
            IN  /\ Flatten(stdout) = [i \in DOMAIN ok |-> ExpectedLine(ok[i])]
                /\ workers[w].localJobStat.filesProcessed = Len(ok)

\* a worker that has finished after 257 successes with failed items in
\* between: one write when the counter wrapped, one after the loop
C4_Witness ==
    /\ workers # <<>>
    /\ workers[0].pc = "done"
    /\ workers[0].batchCounter = 1
    /\ LineCount(stdout) = 257
    /\ Len(stdout) = 2
    /\ Len(stdout[1]) = 256
    /\ Len(received[0]) > 257

(***************************************************************************)
(* C5.  The channel is closed only when the loop over the roots is over,   *)
(* nothing is left to visit and no send is pending; main is then past the  *)
(* close, so the channel is closed once, and no send completes after it.   *)
(* No panic (send on a closed channel, second close) is reachable.  A      *)
(* worker leaves its receive loop only when the channel is closed and      *)
(* empty.                                                                  *)
(***************************************************************************)
C5_CloseAfterAllPushed ==
    /\ [](chanClosed =>
            /\ argIdx > Len(args)
            /\ walkStack = <<>>
            /\ sending = <<>>
            /\ pcMain \in {"wait", "sum", "done"})
    /\ [](pcMain # "panic")
    /\ [][chanClosed => (chanClosed' /\ sent' = sent)]_vars
    /\ [][\A w \in DOMAIN workers :
            (workers[w].pc = "recv" /\ workers'[w].pc \notin {"recv", "open"})
                => (chanClosed /\ g_jobQueue = <<>>)]_vars

\* two roots were walked, the channel is closed and still holds a job while
\* a worker reads another
C5_Witness ==
    /\ chanClosed
    /\ Len(args) = 2
    /\ g_jobQueue # <<>>
    /\ \E w \in DOMAIN workers : workers[w].pc = "read"

(***************************************************************************)
(* C6.  A step of a worker that fails on its item (open error, read error, *)
(* size mismatch) logs a diagnostic naming the path, leaves standard       *)
(* output, the batch buffer, the batch counter and the statistics as they  *)
(* were, leaves the process running and the channel as it was, drops the   *)
(* item and puts the worker back at its receive.  At the end of the run    *)
(* every job sent has given either a line or a failure.                    *)
(***************************************************************************)
\* the diagnostics a worker can log for a path
ItemErrors(path) ==
    { ErrNotExist("open", path), ErrPermission("open", path),
      ErrIO("read", path), ErrSizeMismatch }

\* worker w fails on its item in this step
FailureStep(w) ==
    /\ workers[w].pc \in {"open", "read"}
    /\ workers'[w] # workers[w]
    /\ stderr' # stderr

FailureRule(w) ==
    LET wk == workers[w]
        path == wk.j[1].path
    IN  /\ \E e \in ItemErrors(path) :
              CopiesIn(printErr(path, e), stderr') > CopiesIn(printErr(path, e), stderr)
        /\ stdout' = stdout
        /\ workers'[w].stdoutBuffer = wk.stdoutBuffer
        /\ workers'[w].batchCounter = wk.batchCounter
        /\ workers'[w].localJobStat = wk.localJobStat
        /\ workers'[w].pc = "recv"
        /\ workers'[w].j = <<>>
        /\ \A v \in DOMAIN workers \ {w} : workers'[v] = workers[v]
        /\ UNCHANGED << pcMain, exitCode, g_jobQueue, chanClosed, sent, received >>
        /\ Running

\* the number of items that failed, from the diagnostics (an open error is
\* logged by CRCReader and again by fileHandler)
FailedItems ==
    SumSeq([i \in DOMAIN Paths |->
        CopiesIn(printErr(Paths[i], ErrIO("read", Paths[i])), stderr)
        + CopiesIn(printErr(Paths[i], ErrSizeMismatch), stderr)
        + (CopiesIn(printErr(Paths[i], ErrNotExist("open", Paths[i])), stderr)
           + CopiesIn(printErr(Paths[i], ErrPermission("open", Paths[i])), stderr)) \div 2])

C6_FailureIsPerItem ==
    /\ [][\A w \in DOMAIN workers : FailureStep(w) => FailureRule(w)]_vars
    /\ [](pcMain = "done" => LineCount(stdout) + FailedItems = Len(sent))

\* one worker met the file that cannot be opened and the file whose read
\* fails, and then wrote the line of the file after them
C6_Witness ==
    /\ pcMain = "done"
    /\ workerCount = 1
    /\ CopiesIn(printErr("e/p", ErrPermission("open", "e/p")), stderr) = 2
    /\ CopiesIn(printErr("e/r", ErrIO("read", "e/r")), stderr) = 1
    /\ Flatten(stdout) = << LineOf("e/v") >>
    /\ jobStats[0].filesProcessed = 1

(***************************************************************************)
(* C7 (as amended).  When a worker sees EOF on its file, CRCReader reports *)
(* the size mismatch, and no result line is added, exactly when the number *)
(* of bytes it has read differs from the size listed in the job; otherwise *)
(* exactly one result line is added and nothing is reported.  A change of  *)
(* the file that leaves the number of bytes read equal to the listed size  *)
(* (a truncation after the last byte was read) goes unreported.            *)
(***************************************************************************)
RECURSIVE BufferedLines(_, _)
BufferedLines(wks, n) ==
    IF n = 0 THEN 0 ELSE Len(wks[n - 1].stdoutBuffer) + BufferedLines(wks, n - 1)

\* the result lines written or waiting in a batch buffer
TotalLines(out, wks) == LineCount(out) + BufferedLines(wks, workerCount)

\* worker w sees EOF in this step
EofStep(w) ==
    /\ workers[w].pc = "read"
    /\ workers'[w].pc \in {"recv", "flush"}
    /\ disk[workers[w].j[1].path].canRead

MismatchReported(path) ==
    /\ CopiesIn(printErr(path, ErrSizeMismatch), stderr')
           = CopiesIn(printErr(path, ErrSizeMismatch), stderr) + 1
    /\ TotalLines(stdout', workers') = TotalLines(stdout, workers)

LineEmitted ==
    /\ stderr' = stderr
    /\ TotalLines(stdout', workers') = TotalLines(stdout, workers) + 1

C7_MismatchIffBytesReadDiffer ==
    [][\A w \in DOMAIN workers :
          EofStep(w) =>
              IF workers[w].processedSize # workers[w].j[1].size
              THEN MismatchReported(workers[w].j[1].path)
              ELSE LineEmitted]_vars

\* a file was rewritten while it was read, and the finished run reported the
\* size mismatch for it and wrote no line for it
C7_Witness ==
    /\ pcMain = "done"
    /\ mods = 1
    /\ args = << "c" >>
    /\ Len(disk["c/a"].content) = 2
    /\ CopiesIn(printErr("c/a", ErrSizeMismatch), stderr) = 1
    /\ Flatten(stdout) = << LineOf("c/s/b") >>

\* C7 as stated: at EOF on a file whose size on the disk is not the size
\* listed, the size mismatch is reported and no line is added
C7_Original ==
    [][\A w \in DOMAIN workers :
          (EofStep(w)
             /\ Len(disk[workers[w].j[1].path].content) # workers[w].j[1].size)
              => MismatchReported(workers[w].j[1].path)]_vars

(***************************************************************************)
(* C8 (the claim as stated).  Once the walk of a root that cannot be       *)
(* started (the root does not exist) is over, main is on its fatal exit:   *)
(* it neither goes on to the next root nor closes the channel.             *)
(***************************************************************************)
C8_FatalOnMissingRoot ==
    \A i \in DOMAIN args :
        (args[i] \notin DOMAIN disk /\ argIdx > i) => pcMain = "fatal"

(***************************************************************************)
(* C10.  init runs once and before everything else: while it runs there is *)
(* no channel, no worker, no job sent and nothing written, main never      *)
(* returns to it and the table is set nowhere else.  If the checksum it    *)
(* calculates is not the expected literal the process is at its exit with  *)
(* status 2, and no channel, worker, job or result line ever exists; the   *)
(* exit for missing paths has status 1.                                    *)
(***************************************************************************)
NothingStarted ==
    /\ ~chanMade
    /\ workers = <<>>
    /\ sent = <<>>
    /\ received = <<>>
    /\ stdout = <<>>

C10_SelfTestFirst ==
    /\ [](pcMain = "init" => (NothingStarted /\ g_crc32cTable = Zero32))
    /\ [][pcMain # "init" =>
            (pcMain' # "init" /\ g_crc32cTable' = g_crc32cTable)]_vars
    /\ []((pcMain # "init" /\ SanityResults[g_crc32cTable] # expectedCorrectChecksum)
            => (pcMain = "exit2" /\ exitCode = 2 /\ NothingStarted))
    /\ [](pcMain = "exit2" => SanityResults[g_crc32cTable] # expectedCorrectChecksum)
    /\ [](pcMain = "exit1" => (exitCode = 1 /\ NothingStarted))

\* the table came out wrong: the self-test has stopped the process
C10_Witness ==
    /\ pcMain = "exit2"
    /\ exitCode = 2
    /\ g_crc32cTable = IEEE
    /\ SanityResults[IEEE] = "78nSRA=="
    /\ BagIn(SanityFailedMsg("C7DdPQ==", "78nSRA=="), stderr)

(***************************************************************************)
(* C11.  With a channel of capacity 1 and a single worker, the walker is   *)
(* never more than one completed send ahead of the worker's receives: the  *)
(* send of job k+1 completes only after the worker has received job k.     *)
(***************************************************************************)
C11_PushWaitsForConsumer ==
    (listAheadSize = 1 /\ workerCount = 1 /\ received # <<>>)
        => Len(sent) <= Len(received[0]) + 1

\* the worker is still reading the first job, the second fills the channel,
\* and the walker stands in the send of the third
C11_Witness ==
    /\ listAheadSize = 1
    /\ workerCount = 1
    /\ pcMain = "send"
    /\ sending # <<>>
    /\ Len(g_jobQueue) = 1
    /\ workers[0].pc = "read"
    /\ Len(sent) = 2
    /\ Len(received[0]) = 1

(***************************************************************************)
(* C12.  Over a tree that is not rewritten, the lines a finished run has   *)
(* written to standard output are, as a multiset, the lines the tree       *)
(* determines: one for each regular file under each root that can be       *)
(* opened and read.  The worker count, the queue depth and the             *)
(* interleaving have no part in it, so any two runs over the same tree     *)
(* write multiset-equal output; only the order of the lines may differ.    *)
(***************************************************************************)
\* the result lines of the tree at a path, in the order of the walk
RECURSIVE WalkLines(_)
WalkLines(path) ==
    IF path \notin DOMAIN disk THEN <<>>
    ELSE IF disk[path].kind = "regular" THEN
        IF disk[path].canOpen /\ disk[path].canRead /\ ~Hangs(path)
        THEN << ExpectedLine([path |-> path, size |-> Len(disk[path].content)]) >>
        ELSE <<>>
    ELSE IF disk[path].kind = "dir" /\ disk[path].canOpen THEN
        Flatten([i \in DOMAIN disk[path].names |->
                    WalkLines(Join(path, disk[path].names[i]))])
    ELSE <<>>

\* the lines the command line determines
ExpectedOutput == Flatten([i \in DOMAIN args |-> WalkLines(TreeOf(args[i]))])

\* two sequences hold the same elements the same number of times
SameBag(s, t) ==
    \A x \in { s[i] : i \in DOMAIN s } \cup { t[i] : i \in DOMAIN t } :
        CountIn(x, s) = CountIn(x, t)

C12_OutputDeterminedByTree ==
    (pcMain = "done" /\ mods = 0) => SameBag(Flatten(stdout), ExpectedOutput)

\* a finished run of two workers whose lines came out in another order than
\* the walk's
C12_Witness ==
    /\ pcMain = "done"
    /\ mods = 0
    /\ workerCount = 2
    /\ Len(ExpectedOutput) = 3
    /\ SameBag(Flatten(stdout), ExpectedOutput)
    /\ Flatten(stdout) # ExpectedOutput

(***************************************************************************)
(* C13 (as amended).  A run over the directory "h", whose one file "h/w"   *)
(* holds the twelve bytes "Hello World!", writes exactly the line          *)
(* "/mzx3A== 000000000000000c h/w" and reports one file and twelve bytes   *)
(* processed.  ("C7DdPQ==" is the checksum of the self-test's data, the    *)
(* SHA-512 of "Hello World!" in hex, not of "Hello World!".)               *)
(***************************************************************************)
HelloRun == pcMain = "done" /\ args = << "h" >> /\ mods = 0

C13_HelloWorldLine ==
    HelloRun =>
        /\ Flatten(stdout) = << "/mzx3A== 000000000000000c h/w\n" >>
        /\ totals.filesProcessed = 1
        /\ totals.bytesProcessed = 12

\* the finished run over "h"
C13_Witness ==
    /\ HelloRun
    /\ workerCount = 1
    /\ stdout = << << "/mzx3A== 000000000000000c h/w\n" >> >>
    /\ jobStats[0] = [bytesProcessed |-> 12, filesProcessed |-> 1]

\* C13 as stated: the line carries the self-test's literal
C13_Original ==
    HelloRun =>
        /\ Flatten(stdout) = << "C7DdPQ== 000000000000000c h/w\n" >>
        /\ totals.filesProcessed = 1

(***************************************************************************)
(* C14.  Under fair scheduling, for every worker count and queue depth     *)
(* tried and every command line whose reads all return: the process ends   *)
(* (by one of its exits or by the return of main); a walker that stands in *)
(* a send gets past it; and once the channel is closed the run reaches the *)
(* state where the channel is empty, every worker has written its last     *)
(* lines, stored its statistics in its slot and returned, and main has     *)
(* passed the barrier and written the report.                              *)
(***************************************************************************)
\* no file that is listed hangs its reader
ReadsReturn == Listed \cap HungFiles = {}

Terminated == pcMain \in {"exit1", "exit2", "done"}

\* worker w has written what was left in its buffer, stored its statistics
\* and returned
WorkerFinished(w) ==
    /\ workers[w].pc = "done"
    /\ jobStats[w] = workers[w].localJobStat
    /\ workers[w].batchCounter > 0 =>
          \E i \in DOMAIN stdout : stdout[i] = workers[w].stdoutBuffer

Finished ==
    /\ pcMain = "done"
    /\ g_jobQueue = <<>>
    /\ waitGroup = 0
    /\ \A w \in DOMAIN workers : WorkerFinished(w)
    /\ \E ms \in Durations :
          BagIn(ReportMsg(ms, totals.filesProcessed, totals.bytesProcessed), stderr)

C14_AlwaysTerminates ==
    /\ (pcMain = "init" /\ ReadsReturn) ~> Terminated
    /\ (pcMain = "send" /\ ReadsReturn) ~> (pcMain = "walk")
    /\ (chanClosed /\ ReadsReturn) ~> Finished

\* a finished run of two workers over an unbuffered channel in which files
\* failed and one line was written
C14_Witness ==
    /\ Finished
    /\ args = << "e" >>
    /\ workerCount = 2
    /\ listAheadSize = 0
    /\ LineCount(stdout) = 1
    /\ chanClosed

(***************************************************************************)
(* C18.  Under fair scheduling, with two or more workers and one file on   *)
(* which a read never returns: the walk ends and the channel is closed and *)
(* drained, one worker stays in the read of that file, every other worker  *)
(* writes its lines, stores its statistics and returns, and every other    *)
(* file has been processed: its line is written, or waits in the batch     *)
(* buffer of the worker that hangs (which processed it before).  Main      *)
(* never passes the barrier.                                               *)
(***************************************************************************)
HungRun == args = HungArgs /\ workerCount >= 2

OthersFinished ==
    /\ pcMain = "wait"
    /\ chanClosed
    /\ g_jobQueue = <<>>
    /\ \E h \in DOMAIN workers :
          /\ workers[h].pc = "read"
          /\ Hangs(workers[h].j[1].path)
          /\ \A w \in DOMAIN workers \ {h} : WorkerFinished(w)
          /\ SameBag(Flatten(stdout) \o workers[h].stdoutBuffer, ExpectedOutput)

C18_HungReadBlocksOnlyItsWorker ==
    /\ (pcMain = "walk" /\ HungRun) ~> OthersFinished
    /\ [](HungRun => pcMain \notin {"sum", "done"})

\* worker 0 is held by the hung file; worker 1 has processed the two other
\* files and returned
C18_Witness ==
    /\ HungRun
    /\ OthersFinished
    /\ workerCount = 2
    /\ workers[0].pc = "read"
    /\ LineCount(stdout) = 2
    /\ jobStats[1].filesProcessed = 2
    /\ waitGroup = 1

(***************************************************************************)
(* C15.  A slot of jobStats changes only in the step in which its own      *)
(* worker, past its loop and its last write, stores its statistics and     *)
(* returns; that step stores the worker's statistics and touches no other  *)
(* slot, and a slot whose worker has returned never changes again.  Main   *)
(* is at the summing of the slots, or past it, only when the WaitGroup is  *)
(* at zero and every worker has returned.                                  *)
(***************************************************************************)
\* worker i stores its statistics in this step
StoreStep(i) == workers[i].pc = "store" /\ workers'[i].pc = "done"

SlotRule ==
    \A i \in DOMAIN jobStats :
        /\ (jobStats'[i] # jobStats[i]) => StoreStep(i)
        /\ StoreStep(i) =>
              /\ jobStats'[i] = workers[i].localJobStat
              /\ \A k \in DOMAIN jobStats \ {i} : jobStats'[k] = jobStats[k]
        /\ (workers[i].pc = "done") => (jobStats'[i] = jobStats[i])

C15_SlotsWrittenOnceReadAfterBarrier ==
    /\ [][SlotRule]_vars
    /\ [](\A i \in DOMAIN workers :
            workers[i].pc \in {"recv", "open", "read", "flush", "store"}
                => jobStats[i] = ZeroStat)
    /\ [](pcMain \in {"sum", "done"} =>
            (waitGroup = 0 /\ \A i \in DOMAIN workers : workers[i].pc = "done"))

\* main is about to sum the slots: both workers have stored statistics that
\* are not zero
C15_Witness ==
    /\ pcMain = "sum"
    /\ workerCount = 2
    /\ jobStats[0].bytesProcessed > 0
    /\ jobStats[1].bytesProcessed > 0
    /\ jobStats[0] = workers[0].localJobStat
    /\ jobStats[1] = workers[1].localJobStat

(***************************************************************************)
(* C16.  When main has returned: the total of files processed is the       *)
(* number of result lines written to standard output; every line written   *)
(* is the line of a job that was received, for bytes the file may have     *)
(* yielded; the total of bytes processed is the sum, over the lines        *)
(* written, of the size of the job of the line; and the lines and the      *)
(* items that failed make up the jobs sent, so that a failed item adds to  *)
(* neither total.  This holds of rewritten runs too, in which an item      *)
(* fails the size check.  In a run in which nothing was rewritten the      *)
(* totals are moreover the number and the sizes of the jobs received whose *)
(* file can be opened and read.  The runs checked include two workers,     *)
(* failing files, rewritten files, and a worker whose batch counter wraps. *)
(***************************************************************************)
\* f[lo] + ... + f[hi]
RECURSIVE SumRange(_, _, _)
SumRange(f, lo, hi) ==
    IF lo > hi THEN 0
    ELSE IF lo = hi THEN f[lo]
    ELSE LET mid == (lo + hi) \div 2
         IN  SumRange(f, lo, mid) + SumRange(f, mid + 1, hi)

\* the jobs worker w received whose file can be opened and read
SucceededJobs(w) == SelectSeq(received[w], Succeeds)

SuccessCount ==
    SumRange([w \in JobIds |-> Len(SucceededJobs(w))], 0, workerCount - 1)

SuccessBytes ==
    SumRange([w \in JobIds |->
                 LET ok == SucceededJobs(w)
                 IN  SumRange([i \in DOMAIN ok |-> ok[i].size], 1, Len(ok))],
             0, workerCount - 1)

\* the bytes of the file at path p before any rewrite
OriginalContent(p) ==
    IF p \in DOMAIN SmallDisk THEN SmallDisk[p].content ELSE disk[p].content

\* what a reader may have read of the file of job j when it read as many
\* bytes as the job's size: bytes of the original file, then appended ones
ReadableAs(j) ==
    { SubSeq(OriginalContent(j.path), 1, k) \o [i \in 1..(j.size - k) |-> 33] :
          k \in 0..Min(j.size, Len(OriginalContent(j.path))) }

\* the jobs received, over all workers
ReceivedJobs ==
    UNION { { received[w][i] : i \in DOMAIN received[w] } : w \in DOMAIN received }

\* the result lines the jobs received can have, each with the job's size
LineSizes ==
    UNION { { << ResultLine(EncodeChecksum(Update(Zero32, TableOf(g_crc32cTable), c)), j),
                 j.size >> : c \in ReadableAs(j) } : j \in ReceivedJobs }

\* the sum, over the lines written, of the size of the job of the line
WrittenBytes(lines, sizes) ==
    SumRange([i \in DOMAIN lines |-> (CHOOSE p \in sizes : p[1] = lines[i])[2]],
             1, Len(lines))

\* how many items failed on path p, from the diagnostics (an open error is
\* logged by CRCReader and again by fileHandler)
FailedOn(p) ==
    CopiesIn(printErr(p, ErrIO("read", p)), stderr)
    + CopiesIn(printErr(p, ErrSizeMismatch), stderr)
    + (CopiesIn(printErr(p, ErrNotExist("open", p)), stderr)
       + CopiesIn(printErr(p, ErrPermission("open", p)), stderr)) \div 2

\* worker w is the first to have received a job of the path of its i-th job
FirstOfPath(w, i) ==
    /\ \A k \in 1..(i - 1) : received[w][k].path # received[w][i].path
    /\ \A v \in 0..(w - 1) : \A k \in DOMAIN received[v] :
           received[v][k].path # received[w][i].path

\* the number of items that failed, over the paths of the jobs received
ItemsFailed ==
    SumRange([w \in JobIds |->
                 SumRange([i \in DOMAIN received[w] |->
                              IF FirstOfPath(w, i)
                              THEN FailedOn(received[w][i].path) ELSE 0],
                          1, Len(received[w]))],
             0, workerCount - 1)

C16_TotalsExact ==
    (pcMain = "done") =>
        LET lines == Flatten(stdout)
            sizes == LineSizes
        IN  /\ totals.filesProcessed = Len(lines)
            /\ \A i \in DOMAIN lines : \E p \in sizes : p[1] = lines[i]
            /\ totals.bytesProcessed = WrittenBytes(lines, sizes)
            /\ Len(lines) + ItemsFailed = Len(sent)
            /\ (mods = 0) =>
                  /\ totals.filesProcessed = SuccessCount
                  /\ totals.bytesProcessed = SuccessBytes

\* the report of a run in which one worker processed 257 files, one wrap and
\* one more, and met files it could not open
C16_Witness ==
    /\ pcMain = "done"
    /\ totals.filesProcessed = 257
    /\ totals.bytesProcessed = 257
    /\ LineCount(stdout) = 257
    /\ Len(sent) > 257


(***************************************************************************)
(* C17.  Every change of standard output is one write by one worker, and   *)
(* the write is a whole number of complete result lines: the flush in the  *)
(* loop writes exactly 256 lines, the 255 of the batch buffer and the line *)
(* of the file read last, and leaves the buffer empty; the flush at        *)
(* shutdown writes the buffer, which holds between 1 and 255 lines; no     *)
(* other worker's state changes in the step, so no part of a line of one   *)
(* worker lies inside a write of another.  Between two iterations of the   *)
(* loop the buffer holds as many lines as the batch counter counts, which  *)
(* is at most 255.  A write is one step here because os.File serialises    *)
(* the Write calls of the goroutines of one process.                       *)
(***************************************************************************)
\* the lines of the jobs worker w has received
LinesOf(w) == { ExpectedLine(received[w][i]) : i \in DOMAIN received[w] }

\* the last write, in a step that wrote
LastWrite == stdout'[Len(stdout')]

InLoopFlush(w) ==
    /\ workers[w].pc = "flush"
    /\ workers'[w].pc = "recv"
    /\ Len(LastWrite) = 256
    /\ LastWrite = workers[w].stdoutBuffer
    /\ workers'[w].stdoutBuffer = <<>>
    /\ workers'[w].batchCounter = 0

ShutdownFlush(w) ==
    /\ workers[w].pc = "recv"
    /\ workers'[w].pc = "store"
    /\ LastWrite = workers[w].stdoutBuffer
    /\ Len(LastWrite) \in 1..255

WriteRule ==
    (stdout' # stdout) =>
        /\ Len(stdout') = Len(stdout) + 1
        /\ SubSeq(stdout', 1, Len(stdout)) = stdout
        /\ \E w \in DOMAIN workers :
              /\ InLoopFlush(w) \/ ShutdownFlush(w)
              /\ \A k \in DOMAIN workers \ {w} : workers'[k] = workers[k]
              /\ (mods = 0) =>
                    LET lines == LinesOf(w)
                    IN  \A i \in DOMAIN LastWrite : LastWrite[i] \in lines

C17_WholeLinesPerWrite ==
    /\ [][WriteRule]_vars
    /\ [](\A w \in DOMAIN workers :
            (workers[w].pc = "recv") =>
                /\ Len(workers[w].stdoutBuffer) = workers[w].batchCounter
                /\ Len(workers[w].stdoutBuffer) <= 255)

\* just after the flush in the loop: one write of 256 lines, the buffer empty,
\* the worker back at the channel
C17_Witness ==
    /\ workers # <<>>
    /\ workers[0].pc = "recv"
    /\ Len(received[0]) > 256
    /\ workers[0].batchCounter = 0
    /\ workers[0].stdoutBuffer = <<>>
    /\ Len(stdout) = 1
    /\ Len(stdout[1]) = 256


(***************************************************************************)
(* C19 (the claim as stated, which is the comment on the close statement   *)
(* of main).  In the step in which main closes the channel the buffer of   *)
(* the channel is empty and every job sent has been received by a worker.  *)
(***************************************************************************)
\* the number of receives so far, over all workers
ReceivedTotal ==
    IF received = <<>> THEN 0
    ELSE SumRange([w \in DOMAIN received |-> Len(received[w])],
                  0, workerCount - 1)

\* main executes close(g_jobQueue) in this step
CloseStep == ~chanClosed /\ chanClosed'

C19_AllReceivedAtClose ==
    [][CloseStep => (g_jobQueue = <<>> /\ ReceivedTotal = Len(sent))]_vars


(***************************************************************************)
(* C20.  In every state the jobs sent whose processing has not finished    *)
(* are the jobs in the channel and the jobs the workers hold, and their    *)
(* number is at most listAheadSize + workerCount, however many files the   *)
(* tree has: the runs checked include the directory of several hundred     *)
(* files, walked with one worker and a channel of capacity 0 or 1.         *)
(***************************************************************************)
\* the workers that hold a job: received, not yet hashed or failed
Busy == { w \in DOMAIN workers : workers[w].j # <<>> }

\* the jobs sent whose processing has not finished
InFlight == Len(sent) - (ReceivedTotal - Cardinality(Busy))

C20_InFlightBounded ==
    /\ InFlight = Len(g_jobQueue) + Cardinality(Busy)
    /\ InFlight <= listAheadSize + workerCount
    /\ \A w \in Busy : workers[w].pc \in {"open", "read"}

\* the bound is met far into the large directory: one job in the channel, one
\* in the hands of the worker, more than 256 sent
C20_Witness ==
    /\ Len(sent) > 256
    /\ listAheadSize = 1
    /\ workerCount = 1
    /\ Len(g_jobQueue) = 1
    /\ InFlight = 2
====
